---- MODULE Spec2Model ----
(***************************************************************************)
(* Kolett delivery engine: KolettEngine.process_delivery, the process      *)
(* plugins (copy, symlink, tokenize) and the callback dispatcher, modelled *)
(* over an abstract filesystem.                                            *)
(*                                                                         *)
(* A path is the sequence of its segments below "/" (<<>> is "/").  A      *)
(* rendered template string is the sequence of the strings between its     *)
(* "/" separators.  Python's None is the string None.                      *)
(***************************************************************************)
EXTENDS Integers, Sequences, FiniteSets, TLC

\* ------------------------------------------------------------------ bounds
MaxItems == 3
MaxCallbacks == 2
MaxRuns == 2
MaxCalls == 2
MaxRetryItems == 2
MaxResults == 3

\* ------------------------------------------------------------- basic values
None == "<None>"

\* KolettEngine.default_root and the package name of the delivery
default_root == <<"out">>
package_name == "pkg"

\* ---------------------------------------------------------------- pathlib
\* Path.parent
Parent(p) == IF p = <<>> THEN <<>> ELSE SubSeq(p, 1, Len(p) - 1)

\* Path.name
Name(p) == IF p = <<>> THEN "" ELSE p[Len(p)]

\* the segments pathlib keeps of a string: empty segments are dropped
NonEmptySegs(s) == SelectSeq(s, LAMBDA x : x # "")

\* a string is an absolute path when it starts with "/", that is when its
\* first segment is empty and something follows the separator
IsAbsolute(s) == Len(s) > 1 /\ s[1] = ""

\* Path.__truediv__: an absolute right operand replaces the left one
JoinPath(base, s) == IF IsAbsolute(s) THEN NonEmptySegs(s) ELSE base \o NonEmptySegs(s)

\* Path.stem and Path.suffix.lstrip(".") of the file names of the source tree
Stem(n) ==
    CASE n = "a.exr" -> "a"
      [] n = "f.1001.exr" -> "f.1001"
      [] n = "f.1002.exr" -> "f.1002"
      [] OTHER -> n

Ext(n) == IF n \in {"a.exr", "f.1001.exr", "f.1002.exr"} THEN "exr" ELSE ""

\* ------------------------------------------------------------- filesystem
\* A filesystem maps each existing path to its node.
DirNode == [kind |-> "dir", data |-> <<>>]

FileNode(content) == [kind |-> "file", data |-> content]

LinkNode(target) == [kind |-> "link", data |-> target]

Exists(fs, p) == p \in DOMAIN fs

IsDir(fs, p) == Exists(fs, p) /\ fs[p].kind = "dir"

IsFile(fs, p) == Exists(fs, p) /\ fs[p].kind = "file"

\* the prefixes of a path, the root included
Prefixes(p) == {SubSeq(p, 1, k) : k \in 0..Len(p)}

\* Path.mkdir(parents=True, exist_ok=True): fails when the path or one of
\* its ancestors exists and is not a directory
MkdirBlocked(fs, p) == \E q \in Prefixes(p) : Exists(fs, q) /\ ~IsDir(fs, q)

Mkdirs(fs, p) ==
    IF MkdirBlocked(fs, p) THEN fs
    ELSE [q \in (DOMAIN fs) \cup Prefixes(p) |-> IF q \in DOMAIN fs THEN fs[q] ELSE DirNode]

\* Path.rglob("*"): everything below a directory
ChildrenDeep(fs, d) ==
    {q \in DOMAIN fs : Len(q) > Len(d) /\ SubSeq(q, 1, Len(d)) = d}

\* Path.iterdir: the immediate children of a directory
Children(fs, d) == {q \in DOMAIN fs : q # <<>> /\ Parent(q) = d}

\* the source tree every delivery reads from
SourceTree ==
    (<<>> :> DirNode) @@
    (<<"src">> :> DirNode) @@
    (<<"src", "a.exr">> :> FileNode("A")) @@
    (<<"src", "seq">> :> DirNode) @@
    (<<"src", "seq", "f.1001.exr">> :> FileNode("F1")) @@
    (<<"src", "seq", "f.1002.exr">> :> FileNode("F2")) @@
    (<<"src", "seq", "sub">> :> DirNode) @@
    (<<"src", "seq", "sub", "deep.exr">> :> FileNode("D")) @@
    (<<"src", "empty">> :> DirNode)

\* what is at the destination before the delivery: nothing, the tree of an
\* earlier delivery, or a regular file where the delivery directory goes
DestTrees ==
    { SourceTree,
      SourceTree @@ (<<"out">> :> DirNode) @@ (<<"out", "pkg">> :> DirNode)
                 @@ (<<"out", "pkg", "sh010">> :> FileNode("old")),
      SourceTree @@ (<<"out">> :> DirNode) @@ (<<"out", "pkg">> :> FileNode("old")) }

\* ---------------------------------------------------------------- strings
\* str(Path): the string of an absolute path, as its "/"-separated segments
Str(p) == IF p = <<>> THEN <<"", "">> ELSE <<"">> \o p

\* Path(str), with "/" as the working directory
PathOf(s) == NonEmptySegs(s)

EmptyStr == <<"">>

\* -------------------------------------------------------------- templating
\* A template is its "/"-separated pieces; a piece is a literal, a variable
\* reference {{ k }} or an attribute reference {{ k.attr }}.  syntax is FALSE
\* for a string jinja2 cannot compile.
Lit(s) == [type |-> "lit", v |-> s]

Var(k) == [type |-> "var", v |-> k]

Attr(k) == [type |-> "attr", v |-> k]

\* ""
TEmpty == [syntax |-> TRUE, segs |-> <<>>]

\* "{{ shot }}/{{ src_name }}"
TShot == [syntax |-> TRUE, segs |-> <<Var("shot"), Var("src_name")>>]

\* "{{ shot"
TBad == [syntax |-> FALSE, segs |-> <<Var("shot")>>]

\* "{{ client.code }}/{{ src_name }}"
TAttr == [syntax |-> TRUE, segs |-> <<Attr("client"), Var("src_name")>>]

\* "renamed"
TPlugin == [syntax |-> TRUE, segs |-> <<Lit("renamed")>>]

\* "plates/{{ src_name }}"
TPlates == [syntax |-> TRUE, segs |-> <<Lit("plates"), Var("src_name")>>]

\* "{{ client }}/{{ shot }}/{{ src_name }}"
TClient == [syntax |-> TRUE, segs |-> <<Var("client"), Var("shot"), Var("src_name")>>]

\* "{{ src_base }}"
TBase == [syntax |-> TRUE, segs |-> <<Var("src_base")>>]

\* jinja2 raises for a template it cannot compile and for an attribute of an
\* undefined name; an undefined name alone renders as the empty string
RenderFails(template, metadata) ==
    \/ ~template.syntax
    \/ \E k \in 1..Len(template.segs) :
          template.segs[k].type = "attr" /\ template.segs[k].v \notin DOMAIN metadata

RenderPiece(piece, metadata) ==
    CASE piece.type = "lit" -> piece.v
      [] piece.type = "var" -> IF piece.v \in DOMAIN metadata THEN metadata[piece.v] ELSE ""
      [] OTHER -> ""

\* render_path: Template(template_str).render(**metadata)
render_path(template, metadata) ==
    [raised |-> RenderFails(template, metadata),
     out |-> IF template.segs = <<>> THEN EmptyStr
             ELSE [k \in 1..Len(template.segs) |-> RenderPiece(template.segs[k], metadata)]]

\* ------------------------------------------------------------------ input
\* item metadata
MD0 == [k \in {} |-> ""]

MD1 == [shot |-> "sh010", description |-> "plate"]

\* PackageItem: the fields pydantic keeps of an item of the input JSON
PackageItemFields == {"source_path", "target_template", "metadata"}

PackageItem(data) == [f \in (DOMAIN data) \cap PackageItemFields |-> data[f]]

\* the items an input JSON is made of
RawItems ==
    { [source_path |-> Str(<<"src", "gone.exr">>), target_template |-> TShot, metadata |-> MD1],
      [source_path |-> Str(<<"src", "a.exr">>), target_template |-> TShot, metadata |-> MD1,
       process_method |-> "copy"],
      [source_path |-> Str(<<"src", "a.exr">>), target_template |-> TBad, metadata |-> MD0,
       process_method |-> "bogus"],
      [source_path |-> Str(<<"src", "seq">>), target_template |-> TEmpty, metadata |-> MD1,
       process_method |-> "symlink"],
      [source_path |-> Str(<<"src", "empty">>), target_template |-> TShot, metadata |-> MD0] }

\* a configuration mapping without keys
NoConfig == [k \in {} |-> ""]

\* sequences of length at most n over S
SeqUpTo(S, n) == UNION {[1..k -> S] : k \in 0..n}

\* the callbacks mapping of the input JSON, in insertion order
CallbackChoices ==
    << [name |-> "grist_update", config |-> [enabled |-> TRUE]],
       [name |-> "manifest", config |-> NoConfig],
       [name |-> "mattermost", config |-> [enabled |-> FALSE]],
       [name |-> "nosuch", config |-> NoConfig] >>

\* the mappings of at most MaxCallbacks of these callbacks, keys in this order
CallbackMaps ==
    {[k \in DOMAIN pick |-> CallbackChoices[pick[k]]] :
        pick \in {q \in SeqUpTo(DOMAIN CallbackChoices, MaxCallbacks) :
                     \A i, j \in DOMAIN q : i < j => q[i] < q[j]}}

\* DeliveryInput(**input_data), with the --dry-run override of main applied
DeliveryInput(data) ==
    [items |-> [i \in DOMAIN data.items |-> PackageItem(data.items[i])],
     callbacks |-> data.callbacks,
     dry_run |-> data.dry_run]

InputData ==
    [items : SeqUpTo(RawItems, MaxItems), callbacks : CallbackMaps, dry_run : BOOLEAN]

\* ---------------------------------------------------------- process plugins
\* a filesystem with a node written at, or removed from, a path
Put(fs, p, node) == [q \in (DOMAIN fs) \cup {p} |-> IF q = p THEN node ELSE fs[q]]

Remove(fs, p) == [q \in (DOMAIN fs) \ {p} |-> fs[q]]

\* the path a symbolic link stands for when it is opened
Deref(fs, p) == IF Exists(fs, p) /\ fs[p].kind = "link" THEN fs[p].data ELSE p

\* shutil.copy(src, dst): into dst when dst is a directory; raises for a
\* source that is no file, a destination that is a directory, the same file
\* on both sides, and a missing parent
CopyTarget(fs, src, dst) ==
    LET d0 == Deref(fs, dst)
    IN  Deref(fs, IF IsDir(fs, d0) THEN d0 \o <<Name(src)>> ELSE d0)

CopyRaises(fs, src, dst) ==
    LET s == Deref(fs, src)
        d == CopyTarget(fs, src, dst)
    IN  \/ ~IsFile(fs, s)
        \/ IsDir(fs, d)
        \/ s = d
        \/ ~IsDir(fs, Parent(d))

CopyFile(fs, src, dst) ==
    IF CopyRaises(fs, src, dst) THEN fs
    ELSE Put(fs, CopyTarget(fs, src, dst), FileNode(fs[Deref(fs, src)].data))

\* a plugin that keeps the destination it was given
PluginDestGiven(config, destination, metadata) == PathOf(destination)

\* the destination a copy or symlink plugin settles on: its own
\* target_template, when configured and renderable, replaces the file name
PluginDest(config, destination, metadata) ==
    IF "target_template" \in DOMAIN config /\ config.target_template # TEmpty
    THEN IF render_path(config.target_template, metadata).raised
         THEN PathOf(destination)
         ELSE JoinPath(Parent(PathOf(destination)),
                       render_path(config.target_template, metadata).out)
    ELSE PathOf(destination)

\* copy Plugin.run: the pair (success, final destination) and the filesystem
\* it leaves
CopyRun(config, dry, fs, source, destination, metadata) ==
    LET src_path == PathOf(source)
        dest_path == PluginDest(config, destination, metadata)
    IN  IF dry
        THEN [ok |-> TRUE, dest |-> Str(dest_path), fs |-> fs, metadata |-> metadata]
        ELSE IF MkdirBlocked(fs, Parent(dest_path))
        THEN [ok |-> FALSE, dest |-> Str(dest_path), fs |-> fs, metadata |-> metadata]
        ELSE LET made == Mkdirs(fs, Parent(dest_path))
             IN  [ok |-> ~CopyRaises(made, src_path, dest_path),
                  dest |-> Str(dest_path),
                  fs |-> CopyFile(made, src_path, dest_path),
                  metadata |-> metadata]

\* a symlink plugin that does not unlink what is at the destination
SymlinkRunKeeps(config, dry, fs, source, destination, metadata) ==
    LET src_path == PathOf(source)
        dest_path == PluginDest(config, destination, metadata)
    IN  IF dry
        THEN [ok |-> TRUE, dest |-> Str(dest_path), fs |-> fs, metadata |-> metadata]
        ELSE IF MkdirBlocked(fs, Parent(dest_path)) \/ Exists(fs, dest_path)
        THEN [ok |-> FALSE, dest |-> Str(dest_path), fs |-> fs, metadata |-> metadata]
        ELSE [ok |-> TRUE, dest |-> Str(dest_path),
              fs |-> Put(Mkdirs(fs, Parent(dest_path)), dest_path, LinkNode(src_path)),
              metadata |-> metadata]

\* symlink Plugin.run
SymlinkRun(config, dry, fs, source, destination, metadata) ==
    LET src_path == PathOf(source)
        dest_path == PluginDest(config, destination, metadata)
    IN  IF dry
        THEN [ok |-> TRUE, dest |-> Str(dest_path), fs |-> fs, metadata |-> metadata]
        ELSE IF MkdirBlocked(fs, Parent(dest_path))
        THEN [ok |-> FALSE, dest |-> Str(dest_path), fs |-> fs, metadata |-> metadata]
        ELSE LET made == Mkdirs(fs, Parent(dest_path))
             IN  IF IsDir(made, dest_path)
                 THEN [ok |-> FALSE, dest |-> Str(dest_path), fs |-> made, metadata |-> metadata]
                 ELSE [ok |-> TRUE, dest |-> Str(dest_path),
                       fs |-> Put(IF Exists(made, dest_path) THEN Remove(made, dest_path) ELSE made,
                                  dest_path, LinkNode(src_path)),
                       metadata |-> metadata]

\* str.split(delimiter) of a metadata value
SplitValue(v, delimiter) ==
    CASE v = "sh010" /\ delimiter = "0" -> <<"sh", "1", "">>
      [] v = "sh010" /\ delimiter = "1" -> <<"sh0", "0">>
      [] v = "" -> <<"">>
      [] OTHER -> <<v>>

\* str.split(delimiter) of a path string: its segments for "/"
SplitStr(s, delimiter) == IF delimiter = "/" THEN s ELSE <<"<path>">>

\* a token index of the configuration: the integer n, a word like "first",
\* the string of the digits of n, or a float between n and the next integer
\* away from zero
Index(n) == [type |-> "int", n |-> n]

BadIndex == [type |-> "word", n |-> 0]

DigitsIndex(n) == [type |-> "digits", n |-> n]

FloatIndex(n) == [type |-> "float", n |-> n]

\* int(index): ValueError for a word; a string of digits is parsed and a
\* float is truncated toward zero
PyInt(index) == [raised |-> index.type = "word", n |-> index.n]

\* a bounds check without the negative indices
IndexInRangeFromZero(idx, parts) == idx < Len(parts) /\ idx >= 0

\* the bounds check of tokenize, with Python's negative indexing
IndexInRange(idx, parts) ==
    idx < Len(parts) /\ (idx >= 0 \/ -idx <= Len(parts))

PyIndex(parts, idx) == IF idx >= 0 THEN parts[idx + 1] ELSE parts[Len(parts) + idx + 1]

\* the loop over token_map.items(): metadata[name] = parts[idx]
RECURSIVE InjectTokens(_, _, _)
InjectTokens(tokens, parts, metadata) ==
    IF tokens = <<>> THEN metadata
    ELSE LET t == Head(tokens)
             md == IF ~PyInt(t.index).raised /\ IndexInRange(PyInt(t.index).n, parts)
                   THEN [k \in (DOMAIN metadata) \cup {t.name} |->
                            IF k = t.name THEN PyIndex(parts, PyInt(t.index).n)
                            ELSE metadata[k]]
                   ELSE metadata
         IN  InjectTokens(Tail(tokens), parts, md)

\* tokenize Plugin.run
TokenizeRun(config, dry, fs, source, destination, metadata) ==
    LET delimiter == IF "delimiter" \in DOMAIN config THEN config.delimiter ELSE "/"
        token_map == IF "tokens" \in DOMAIN config THEN config.tokens ELSE <<>>
        from_key == /\ "source_key" \in DOMAIN config
                    /\ config.source_key \in DOMAIN metadata
                    /\ metadata[config.source_key] # ""
        parts == IF from_key THEN SplitValue(metadata[config.source_key], delimiter)
                 ELSE SplitStr(source, delimiter)
    IN  IF ~from_key /\ source = EmptyStr
        THEN [ok |-> TRUE, dest |-> destination, fs |-> fs, metadata |-> metadata]
        ELSE [ok |-> TRUE, dest |-> destination, fs |-> fs,
              metadata |-> InjectTokens(token_map, parts, metadata)]

\* the modules under kolett/plugins/process
ProcessPlugins == {"copy", "symlink", "tokenize"}

\* the plugins.process section of the engine's settings
Settings ==
    [copy |-> [target_template |-> TPlugin],
     symlink |-> NoConfig,
     tokenize |-> [tokens |-> <<[name |-> "root", index |-> Index(1)],
                                [name |-> "far", index |-> Index(9)],
                                [name |-> "leaf", index |-> Index(-1)],
                                [name |-> "bad", index |-> BadIndex],
                                [name |-> "shot", index |-> Index(-4)],
                                [name |-> "digits", index |-> DigitsIndex(2)],
                                [name |-> "half", index |-> FloatIndex(1)]>>]]

\* ------------------------------------------------------------------ engine
VARIABLES
    input_data,       \* the input JSON
    settings,         \* the plugins.process section of the engine's config
    delivery,         \* the DeliveryInput parsed from the input JSON
    fs,               \* the filesystem
    pc,               \* where process_delivery is
    idx,              \* the position of the item loop, from 1
    sources_to_copy,  \* the files of the current item still to process
    results,          \* the ItemResults appended so far
    output,           \* <<DeliveryOutput>> once assembled, <<>> before
    cb,               \* the position of the callback loop, from 1
    invoked,          \* the callback plugins whose run was called, in order
    start_fs,         \* the filesystem process_delivery was called on
    history,          \* the earlier invocations: flag, filesystem, outcome
    last_call,        \* <<the latest direct call of a process plugin>>, or <<>>
    ncalls            \* the number of direct calls of process plugins

vars == <<input_data, settings, delivery, fs, pc, idx, sources_to_copy, results, output,
          cb, invoked, start_fs, history, last_call, ncalls>>

delivery_path == default_root \o <<package_name>>

\* str(e) of the exceptions the item loop catches
ErrSourceMissing == "Source path does not exist"

ErrNoAttribute == "'PackageItem' object has no attribute 'process_method'"

ErrMkdir == "[Errno 17] File exists"

ErrValidation == "1 validation error for ItemResult"

\* ItemResult(source, destination, success, error=None)
ItemResult(source, destination, success, error) ==
    [source |-> source, destination |-> destination, success |-> success, error |-> error]

\* the except clause without error=str(e)
FailedResultNoError(item, error) == ItemResult(item.source_path, EmptyStr, FALSE, None)

\* the except clause of the item loop: one failed result for the item
FailedResult(item, error) == ItemResult(item.source_path, EmptyStr, FALSE, error)

\* a guarded mkdir(parents=True) without exist_ok
EnsureDirRaisesExisting(dry_run, fs0, p) == ~dry_run /\ (MkdirBlocked(fs0, p) \/ Exists(fs0, p))

\* mkdir(parents=True, exist_ok=True) guarded by "if not delivery.dry_run"
EnsureDirRaises(dry_run, fs0, p) == ~dry_run /\ MkdirBlocked(fs0, p)

\* a mkdir that is not guarded by the dry_run flag
EnsureDirAlways(dry_run, fs0, p) == Mkdirs(fs0, p)

EnsureDir(dry_run, fs0, p) == IF dry_run THEN fs0 ELSE Mkdirs(fs0, p)

\* file_metadata: a copy of the item's metadata with the src_ fields
FileMetadata(metadata, src_file) ==
    [k \in (DOMAIN metadata) \cup {"src_name", "src_base", "src_ext"} |->
        CASE k = "src_name" -> Name(src_file)
          [] k = "src_base" -> Stem(Name(src_file))
          [] k = "src_ext" -> Ext(Name(src_file))
          [] OTHER -> metadata[k]]

\* an item whose metadata is the dict the file's fields and tokens are written to
StoredMetadataShared(metadata, file_metadata) == file_metadata

\* item.metadata after a file of the item was processed: file_metadata is
\* item.metadata.copy(), so nothing written to it reaches the item
StoredMetadata(metadata, file_metadata) == metadata

\* target_filename: the rendered target_template, or the original name when
\* the template is empty or fails to render
TargetFilename(item, src_file) ==
    LET r == render_path(item.target_template, FileMetadata(item.metadata, src_file))
    IN  IF item.target_template # TEmpty /\ ~r.raised THEN r.out ELSE <<Name(src_file)>>

\* _run_process_plugin: False for a module that cannot be imported, else
\* what the plugin's run returns, a (success, destination) tuple
RunProcessPlugin(config, method, source, destination, metadata, dry_run, fs0) ==
    IF method \notin ProcessPlugins
    THEN [tuple |-> FALSE, ok |-> FALSE, dest |-> destination, fs |-> fs0, metadata |-> metadata]
    ELSE LET r == CASE method = "copy" ->
                         CopyRun(config[method], dry_run, fs0, source, destination, metadata)
                    [] method = "symlink" ->
                         SymlinkRun(config[method], dry_run, fs0, source, destination, metadata)
                    [] OTHER ->
                         TokenizeRun(config[method], dry_run, fs0, source, destination, metadata)
         IN  [tuple |-> TRUE, ok |-> r.ok, dest |-> r.dest, fs |-> r.fs, metadata |-> r.metadata]

\* the body of the loop over sources_to_copy for one file: the exception it
\* raises (None for none), the ItemResult it appends, the filesystem after and
\* the file_metadata dict as the body leaves it
ProcessFile(config, dry_run, fs0, item, src_file) ==
    LET file_metadata == FileMetadata(item.metadata, src_file)
        target_path == JoinPath(delivery_path, TargetFilename(item, src_file))
        made == EnsureDir(dry_run, fs0, Parent(target_path))
        ran == RunProcessPlugin(config, item.process_method, Str(src_file), Str(target_path),
                                file_metadata, dry_run, made)
    IN  IF EnsureDirRaises(dry_run, fs0, Parent(target_path))
        THEN [raised |-> ErrMkdir, result |-> <<>>, fs |-> fs0, metadata |-> file_metadata]
        ELSE IF "process_method" \notin DOMAIN item
        THEN [raised |-> ErrNoAttribute, result |-> <<>>, fs |-> made,
              metadata |-> file_metadata]
        ELSE IF ran.tuple
        THEN [raised |-> ErrValidation, result |-> <<>>, fs |-> ran.fs,
              metadata |-> ran.metadata]
        ELSE [raised |-> None,
              result |-> <<ItemResult(Str(src_file), Str(target_path), FALSE, None)>>,
              fs |-> ran.fs, metadata |-> ran.metadata]

\* the fields of ItemResult
ItemResultFields == {"source", "destination", "success", "error"}

\* the orders in which iterdir can list a set of paths
Orders(S) == {o \in [1..Cardinality(S) -> S] : \A i, j \in DOMAIN o : i # j => o[i] # o[j]}

\* sum(1 for r in results if r.success)
SuccessCount(rs) == Cardinality({i \in DOMAIN rs : rs[i].success})

\* a summary that counts every result as delivered
SummaryCountsAll(rs, items) ==
    [text |-> "Successfully delivered", files |-> Len(rs), items |-> Len(items)]

\* f"Successfully delivered {success_count} files across {len(delivery.items)} items."
Summary(rs, items) ==
    [text |-> "Successfully delivered", files |-> SuccessCount(rs), items |-> Len(items)]

DeliveryOutput(rs, items) ==
    [package_name |-> package_name,
     delivery_path |-> Str(delivery_path),
     manifest_path |-> Str(delivery_path \o <<"manifest.md">>),
     timestamp |-> "ts",
     results |-> rs,
     summary |-> Summary(rs, items)]

\* the modules under kolett/plugins/output
CallbackPlugins == {"manifest", "mattermost", "email", "apprise", "grist_update"}

\* plugin_config.get("enabled", True)
Enabled(config) == IF "enabled" \in DOMAIN config THEN config.enabled ELSE TRUE

\* _group_sequences reads res.description of every result
GroupRaises(rs) == rs # <<>> /\ "description" \notin ItemResultFields

\* how the run of a callback plugin can end: it returns True or False, or
\* it raises
CallbackOutcomes(name, dry_run, out) ==
    CASE name = "manifest" ->
           IF dry_run THEN {"True"}
           ELSE IF GroupRaises(out.results) THEN {"False"}
           ELSE {"True", "False"}
      [] name = "grist_update" ->
           IF dry_run THEN {"True", "False"} ELSE {"True", "False", "raise"}
      [] OTHER -> {"True", "False"}

\* "Successfully" in delivery_output.summary
Contains(text, word) ==
    \E i \in 1..(Len(text) - Len(word) + 1) : SubSeq(text, i, i + Len(word) - 1) = word

\* the callback plugins that report a status derived from the summary
StatusPlugins == {"grist_update", "apprise", "mattermost"}

\* the status, notification type or colour a plugin derives from the summary
Status(name, out) ==
    LET ok == Contains(out.summary.text, "Successfully")
    IN  CASE name = "grist_update" -> IF ok THEN "Delivered" ELSE "Failed"
          [] name = "apprise" -> IF ok THEN "info" ELSE "failure"
          [] name = "mattermost" -> IF ok THEN "#00FF00" ELSE "#FF0000"
          [] OTHER -> "<None>"

\* what a run reports: nothing in a dry run, nothing when the configuration
\* is incomplete (the run returns False before the status is derived), the
\* derived status otherwise
CallbackStatuses(name, dry_run, outcome, out) ==
    IF name \notin StatusPlugins \/ dry_run THEN {"<None>"}
    ELSE IF outcome = "False" THEN {"<None>", Status(name, out)}
    ELSE {Status(name, out)}

\* the filesystem a callback plugin's run leaves: manifest writes its file
CallbackWrites(name, dry_run, outcome, fs0, out) ==
    IF name = "manifest" /\ ~dry_run /\ outcome = "True"
    THEN Put(fs0, PathOf(out.delivery_path) \o <<"manifest.md">>, FileNode("manifest"))
    ELSE fs0

Item == delivery.items[idx]

Init ==
    /\ input_data \in InputData
    /\ settings = Settings
    /\ delivery = DeliveryInput(input_data)
    /\ fs \in DestTrees
    /\ start_fs = fs
    /\ pc = "start"
    /\ idx = 1
    /\ sources_to_copy = <<>>
    /\ results = <<>>
    /\ output = <<>>
    /\ cb = 1
    /\ invoked = <<>>
    /\ history = <<>>
    /\ last_call = <<>>
    /\ ncalls = 0

\* engine.py 33-54: the delivery directory is created
Begin ==
    /\ pc = "start"
    /\ ~EnsureDirRaises(delivery.dry_run, fs, delivery_path)
    /\ fs' = EnsureDir(delivery.dry_run, fs, delivery_path)
    /\ pc' = "item"
    /\ UNCHANGED <<input_data, settings, delivery, idx, sources_to_copy, results, output,
                   cb, invoked, start_fs, history, last_call, ncalls>>

\* engine.py 53-54: mkdir raises outside every try; the call ends there
BeginRaises ==
    /\ pc = "start"
    /\ EnsureDirRaises(delivery.dry_run, fs, delivery_path)
    /\ pc' = "raised"
    /\ UNCHANGED <<input_data, settings, delivery, fs, idx, sources_to_copy, results, output,
                   cb, invoked, start_fs, history, last_call, ncalls>>

\* a missing source that ends the item loop instead of continuing it
ItemMissingBreaks ==
    /\ pc = "item"
    /\ idx <= Len(delivery.items)
    /\ ~Exists(fs, PathOf(Item.source_path))
    /\ results' = Append(results, FailedResult(Item, ErrSourceMissing))
    /\ idx' = Len(delivery.items) + 1
    /\ UNCHANGED <<input_data, settings, delivery, fs, pc, sources_to_copy, output,
                   cb, invoked, start_fs, history, last_call, ncalls>>

\* engine.py 58-62 and 128-137: the source of the item does not exist
ItemMissing ==
    /\ pc = "item"
    /\ idx <= Len(delivery.items)
    /\ ~Exists(fs, PathOf(Item.source_path))
    /\ results' = Append(results, FailedResult(Item, ErrSourceMissing))
    /\ idx' = idx + 1
    /\ UNCHANGED <<input_data, settings, delivery, fs, pc, sources_to_copy, output,
                   cb, invoked, start_fs, history, last_call, ncalls>>

\* engine.py 64-74: the files of the item are collected
ItemCollect ==
    /\ pc = "item"
    /\ idx <= Len(delivery.items)
    /\ Exists(fs, PathOf(Item.source_path))
    /\ LET source == PathOf(Item.source_path)
       IN  \E listed \in IF IsDir(fs, source)
                         THEN Orders({f \in Children(fs, source) : IsFile(fs, Deref(fs, f))})
                         ELSE {<<source>>} :
              /\ sources_to_copy' = listed
              /\ IF listed = <<>>
                 THEN idx' = idx + 1 /\ pc' = "item"
                 ELSE idx' = idx /\ pc' = "file"
    /\ UNCHANGED <<input_data, settings, delivery, fs, results, output,
                   cb, invoked, start_fs, history, last_call, ncalls>>

\* engine.py 76-137: one file of the item is processed
FileStep ==
    /\ pc = "file"
    /\ LET r == ProcessFile(settings, delivery.dry_run, fs, Item, Head(sources_to_copy))
       IN  /\ fs' = r.fs
           /\ delivery' = [delivery EXCEPT
                             !.items[idx].metadata = StoredMetadata(Item.metadata, r.metadata)]
           /\ IF r.raised # None
              THEN /\ results' = Append(results, FailedResult(Item, r.raised))
                   /\ sources_to_copy' = <<>>
              ELSE /\ results' = Append(results, r.result[1])
                   /\ sources_to_copy' = Tail(sources_to_copy)
    /\ IF sources_to_copy' = <<>>
       THEN idx' = idx + 1 /\ pc' = "item"
       ELSE idx' = idx /\ pc' = "file"
    /\ UNCHANGED <<input_data, settings, output, cb, invoked, start_fs, history, last_call,
                   ncalls>>

\* a summary that does not wait for the end of the item loop
SummarizeEarly ==
    /\ pc = "item"
    /\ output' = <<DeliveryOutput(results, delivery.items)>>
    /\ pc' = "callbacks"
    /\ cb' = 1
    /\ UNCHANGED <<input_data, settings, delivery, fs, idx, sources_to_copy, results,
                   invoked, start_fs, history, last_call, ncalls>>

\* engine.py 139-150: the summary and the DeliveryOutput
Summarize ==
    /\ pc = "item"
    /\ idx > Len(delivery.items)
    /\ output' = <<DeliveryOutput(results, delivery.items)>>
    /\ pc' = "callbacks"
    /\ cb' = 1
    /\ UNCHANGED <<input_data, settings, delivery, fs, idx, sources_to_copy, results,
                   invoked, start_fs, history, last_call, ncalls>>

Callback == delivery.callbacks[cb]

\* engine.py 193-195: a disabled callback is skipped
CallbackSkip ==
    /\ pc = "callbacks"
    /\ cb <= Len(delivery.callbacks)
    /\ ~Enabled(Callback.config)
    /\ cb' = cb + 1
    /\ UNCHANGED <<input_data, settings, delivery, fs, pc, idx, sources_to_copy, results,
                   output, invoked, start_fs, history, last_call, ncalls>>

\* engine.py 200-201 and 208-209: the module of the callback cannot be imported
CallbackImportFails ==
    /\ pc = "callbacks"
    /\ cb <= Len(delivery.callbacks)
    /\ Enabled(Callback.config)
    /\ Callback.name \notin CallbackPlugins
    /\ cb' = cb + 1
    /\ UNCHANGED <<input_data, settings, delivery, fs, pc, idx, sources_to_copy, results,
                   output, invoked, start_fs, history, last_call, ncalls>>

\* a callback loop that a raising or failing callback ends
CallbackRunBreaks ==
    /\ pc = "callbacks"
    /\ cb <= Len(delivery.callbacks)
    /\ Enabled(Callback.config)
    /\ Callback.name \in CallbackPlugins
    /\ \E outcome \in CallbackOutcomes(Callback.name, delivery.dry_run, output[1]) :
          /\ \E status \in CallbackStatuses(Callback.name, delivery.dry_run, outcome,
                                            output[1]) :
                invoked' = Append(invoked, [name |-> Callback.name, outcome |-> outcome,
                                            status |-> status])
          /\ fs' = CallbackWrites(Callback.name, delivery.dry_run, outcome, fs, output[1])
          /\ cb' = IF outcome = "True" THEN cb + 1 ELSE Len(delivery.callbacks) + 1
    /\ UNCHANGED <<input_data, settings, delivery, pc, idx, sources_to_copy, results,
                   output, start_fs, history, last_call, ncalls>>

\* engine.py 204-209: the callback plugin runs; what it returns is dropped
\* and what it raises is logged
CallbackRun ==
    /\ pc = "callbacks"
    /\ cb <= Len(delivery.callbacks)
    /\ Enabled(Callback.config)
    /\ Callback.name \in CallbackPlugins
    /\ \E outcome \in CallbackOutcomes(Callback.name, delivery.dry_run, output[1]) :
          /\ \E status \in CallbackStatuses(Callback.name, delivery.dry_run, outcome,
                                            output[1]) :
                invoked' = Append(invoked, [name |-> Callback.name, outcome |-> outcome,
                                            status |-> status])
          /\ fs' = CallbackWrites(Callback.name, delivery.dry_run, outcome, fs, output[1])
    /\ cb' = cb + 1
    /\ UNCHANGED <<input_data, settings, delivery, pc, idx, sources_to_copy, results,
                   output, start_fs, history, last_call, ncalls>>

\* engine.py 155: process_delivery returns the output
Return ==
    /\ pc = "callbacks"
    /\ cb > Len(delivery.callbacks)
    /\ pc' = "done"
    /\ UNCHANGED <<input_data, settings, delivery, fs, idx, sources_to_copy, results,
                   output, cb, invoked, start_fs, history, last_call, ncalls>>

\* main.py 70-87: the same input JSON is delivered again, with or without
\* --dry-run, on the filesystem the earlier invocation left
Rerun ==
    /\ pc \in {"done", "raised"}
    /\ Len(history) < MaxRuns - 1
    /\ history' = Append(history, [dry_run |-> delivery.dry_run, start_fs |-> start_fs,
                                   fs |-> fs, pc |-> pc, output |-> output])
    /\ \E d \in BOOLEAN : delivery' = [delivery EXCEPT !.dry_run = d]
    /\ start_fs' = fs
    /\ pc' = "start"
    /\ idx' = 1
    /\ sources_to_copy' = <<>>
    /\ results' = <<>>
    /\ output' = <<>>
    /\ cb' = 1
    /\ invoked' = <<>>
    /\ UNCHANGED <<input_data, settings, fs, last_call, ncalls>>

\* the destination trees the process plugins are called on: nothing there,
\* a regular file, a live link, a stale link or a directory at the destination
PluginTrees ==
    LET out == SourceTree @@ (<<"out">> :> DirNode) @@ (<<"out", "pkg">> :> DirNode)
        dest == <<"out", "pkg", "a.exr">>
    IN  { SourceTree,
          out @@ (dest :> FileNode("old")),
          out @@ (dest :> LinkNode(<<"src", "seq", "f.1001.exr">>)),
          out @@ (dest :> LinkNode(<<"src", "gone.exr">>)),
          out @@ (dest :> DirNode) }

\* the configurations, sources, destinations and metadata of the direct calls
PluginConfigs(method) ==
    CASE method \in {"copy", "symlink"} ->
           {NoConfig, [target_template |-> TPlugin], [target_template |-> TBad],
            [target_template |-> TEmpty], [target_template |-> TClient]}
      [] method = "tokenize" ->
           {Settings.tokenize,
            [source_key |-> "shot", delimiter |-> "0",
             tokens |-> <<[name |-> "bad", index |-> BadIndex],
                          [name |-> "part", index |-> Index(-3)],
                          [name |-> "description", index |-> Index(3)]>>]}
      [] OTHER -> {NoConfig}

PluginSources == {Str(<<"src", "a.exr">>), Str(<<"src", "seq", "f.1001.exr">>),
                  Str(<<"src", "gone.exr">>)}

PluginDestinations == {Str(<<"out", "pkg", "a.exr">>), Str(<<"out", "pkg", "sh010", "a.exr">>)}

\* the state in which process plugins are called directly, as the engine
\* calls them: with the plugin's section of the settings and the dry_run flag
InitPlugins ==
    /\ input_data \in [items : {<<>>}, callbacks : {<<>>}, dry_run : BOOLEAN]
    /\ settings = Settings
    /\ delivery = DeliveryInput(input_data)
    /\ fs \in PluginTrees
    /\ start_fs = fs
    /\ pc = "plugin"
    /\ idx = 1
    /\ sources_to_copy = <<>>
    /\ results = <<>>
    /\ output = <<>>
    /\ cb = 1
    /\ invoked = <<>>
    /\ history = <<>>
    /\ last_call = <<>>
    /\ ncalls = 0

\* engine.py 78-85 and 157-180: the file_metadata of a file of an item with
\* metadata MD1 is built, and _run_process_plugin loads the plugin of a method
\* and runs it on a source, a destination and that file_metadata
PluginCall ==
    /\ pc = "plugin"
    /\ ncalls < MaxCalls
    /\ \E method \in ProcessPlugins \cup {"bogus"}, source \in PluginSources,
          destination \in PluginDestinations :
        \E config \in PluginConfigs(method) :
          LET item_metadata == IF last_call = <<>> THEN MD1 ELSE last_call[1].item_metadata
              md == FileMetadata(item_metadata, PathOf(source))
              r == RunProcessPlugin([m \in ProcessPlugins |-> config], method, source,
                                    destination, md, delivery.dry_run, fs)
          IN  /\ fs' = r.fs
              /\ last_call' = <<[method |-> method, config |-> config, source |-> source,
                                 destination |-> destination, metadata |-> md,
                                 before |-> fs, returned |-> r,
                                 item_metadata |-> StoredMetadata(item_metadata, r.metadata)]>>
    /\ ncalls' = ncalls + 1
    /\ UNCHANGED <<input_data, settings, delivery, pc, idx, sources_to_copy, results, output,
                   cb, invoked, start_fs, history>>

Next ==
    \/ Begin
    \/ BeginRaises
    \/ ItemMissing
    \/ ItemCollect
    \/ FileStep
    \/ Summarize
    \/ CallbackSkip
    \/ CallbackImportFails
    \/ CallbackRun
    \/ Return

\* one invocation of process_delivery
Spec == Init /\ [][Next]_vars

\* a dry run followed by further invocations on the same input
InitPreview == Init /\ delivery.dry_run /\ Len(delivery.callbacks) <= 1

SpecPreview == InitPreview /\ [][Next \/ Rerun]_vars

\* process plugins called directly
SpecPlugins == InitPlugins /\ [][PluginCall]_vars

\* an invocation of process_delivery, or direct calls of process plugins
SpecAll == (Init \/ InitPlugins) /\ [][Next \/ PluginCall]_vars

\* ------------------------------------------------------------------ claims
Items == delivery.items

SourceOf(i) == PathOf(Items[i].source_path)

Missing(i) == ~Exists(fs, SourceOf(i))

\* process_delivery has left the item loop with a DeliveryOutput
Assembled == pc \in {"callbacks", "done"}

ResultsFrom(s) == {k \in DOMAIN results : results[k].source = s}

\* C1: an item whose source does not exist gets exactly one result, with the
\* item's source_path, an empty destination, success false and an error, and
\* the loop goes on: at the end every item was reached and every item with an
\* existing file source has a result.
C1_MissingSourceOneFailedResult ==
    /\ \A i \in DOMAIN Items :
          (i < idx /\ Missing(i)) =>
             /\ Cardinality(ResultsFrom(Items[i].source_path))
                  = Cardinality({j \in 1..(idx - 1) : Items[j].source_path = Items[i].source_path})
             /\ \A k \in ResultsFrom(Items[i].source_path) :
                   /\ results[k].destination = EmptyStr
                   /\ ~results[k].success
                   /\ results[k].error \notin {None, ""}
    /\ Assembled =>
          /\ idx = Len(Items) + 1
          /\ \A j \in DOMAIN Items : IsFile(fs, SourceOf(j)) => ResultsFrom(Items[j].source_path) # {}

C1_Witness ==
    /\ pc = "done"
    /\ \E i \in DOMAIN Items :
          /\ Missing(i)
          /\ i + 1 \in DOMAIN Items
          /\ IsFile(fs, SourceOf(i + 1))
          /\ ResultsFrom(Items[i + 1].source_path) # {}
          /\ ResultsFrom(Items[i].source_path) # {}

\* the files an item resolves to: the file itself, or the immediate file
\* children of the directory
Resolved(i) ==
    IF IsDir(fs, SourceOf(i)) THEN {f \in Children(fs, SourceOf(i)) : IsFile(fs, f)}
    ELSE IF Exists(fs, SourceOf(i)) THEN {SourceOf(i)}
    ELSE {}

\* C2: after process_delivery every resolved file has exactly one result,
\* and an item whose source exists has no other result.
C2_OneResultPerResolvedFile ==
    Assembled =>
       /\ \A i \in DOMAIN Items : \A f \in Resolved(i) :
             Cardinality(ResultsFrom(Str(f)))
               = Cardinality({j \in DOMAIN Items : f \in Resolved(j)})
       /\ \A k \in DOMAIN results :
             \/ \E i \in DOMAIN Items : PathOf(results[k].source) \in Resolved(i)
             \/ \E i \in DOMAIN Items : Missing(i) /\ results[k].source = Items[i].source_path

\* the item of the input JSON is a regular file delivered by the copy plugin
\* (named, or by default) that the copy plugin can copy to its target
CopyableFileItem(i) ==
    LET raw == input_data.items[i]
        target == JoinPath(delivery_path, TargetFilename(Items[i], SourceOf(i)))
    IN  /\ "process_method" \in DOMAIN raw => raw.process_method = "copy"
        /\ IsFile(start_fs, SourceOf(i))
        /\ CopyRun(NoConfig, FALSE, start_fs, Items[i].source_path, Str(target), MD0).ok

\* C3: in a real run every copyable regular-file item has a successful
\* result and every item with a missing source has a failed one.
C3_CopyableItemsSucceed ==
    (pc = "done" /\ ~delivery.dry_run) =>
       \A i \in DOMAIN Items :
          /\ CopyableFileItem(i) =>
                \E k \in ResultsFrom(Items[i].source_path) : results[k].success
          /\ Missing(i) =>
                \E k \in ResultsFrom(Items[i].source_path) : ~results[k].success

\* C4 as claimed: the summary reports the successful results out of the
\* number of results.
C4_SummaryOfResults ==
    Assembled =>
       /\ output[1].summary.files = Cardinality({k \in DOMAIN results : results[k].success})
       /\ output[1].summary.items = Len(output[1].results)

\* C4 amended: the summary reports the successful results and the number of
\* items of the package; both are 0, and results is empty, for no items.
C4_SummaryOfItems ==
    Assembled =>
       /\ output[1].summary.files
            = Cardinality({k \in DOMAIN output[1].results : output[1].results[k].success})
       /\ output[1].summary.items = Len(Items)
       /\ Items = <<>> =>
             output[1].results = <<>> /\ output[1].summary.files = 0
                                      /\ output[1].summary.items = 0

C4_Witness ==
    /\ pc = "done"
    /\ output[1].results # <<>>
    /\ Len(output[1].results) # Len(Items)
    /\ output[1].summary.items = Len(Items)

C6_DryRunLeavesFilesystem == [][delivery.dry_run => fs' = fs]_vars

C6_Witness ==
    /\ pc = "done"
    /\ delivery.dry_run
    /\ \E k \in DOMAIN results : IsFile(fs, PathOf(results[k].source))
    /\ \E k \in DOMAIN invoked : invoked[k].name = "manifest"
    /\ ~Exists(fs, default_root)
    /\ fs = start_fs

\* two result lists of the same shape: as many results, in the same order,
\* with the same sources and destinations
SameShape(rs1, rs2) ==
    /\ Len(rs1) = Len(rs2)
    /\ \A k \in DOMAIN rs1 :
          rs1[k].source = rs2[k].source /\ rs1[k].destination = rs2[k].destination

\* C7: a real run on the filesystem and input of a finished dry run returns
\* a DeliveryOutput of the same shape as the dry run's.
C7_DryRunSameShape ==
    \A h \in DOMAIN history :
       ( /\ history[h].dry_run
         /\ history[h].pc = "done"
         /\ ~delivery.dry_run
         /\ start_fs = history[h].start_fs
         /\ pc \in {"done", "raised"} ) =>
            /\ pc = "done"
            /\ SameShape(history[h].output[1].results, output[1].results)

\* C8: under dry_run the run of no callback plugin is called.
C8_NoCallbackInDryRun == delivery.dry_run => invoked = <<>>

\* str(e) of the ImportError of a process plugin that does not exist
ErrUnknownStrategy == "No module named 'kolett.plugins.process.bogus'"

\* the item of the input JSON names a process plugin that does not exist
UnknownMethodItem(i) ==
    /\ "process_method" \in DOMAIN input_data.items[i]
    /\ input_data.items[i].process_method \notin ProcessPlugins

\* C9: an item naming an unregistered strategy gets a failed result with an
\* unknown-strategy error, and the items after it are processed.
C9_UnknownStrategyFails ==
    Assembled =>
       /\ idx = Len(Items) + 1
       /\ \A i \in DOMAIN Items :
             (UnknownMethodItem(i) /\ IsFile(fs, SourceOf(i))) =>
                \E k \in ResultsFrom(Items[i].source_path) :
                   ~results[k].success /\ results[k].error = ErrUnknownStrategy

\* the callbacks the dispatcher has to run: enabled, with a plugin module
Runnable == SelectSeq(delivery.callbacks,
                      LAMBDA c : Enabled(c.config) /\ c.name \in CallbackPlugins)

\* C10: no callback changes the assembled DeliveryOutput, whatever it
\* returns or raises, and the call returns it after running every enabled
\* callback in order.
C10_CallbackFailureContained ==
    /\ [][pc = "callbacks" => output' = output]_vars
    /\ [](pc = "done" =>
            /\ output = <<DeliveryOutput(results, Items)>>
            /\ Len(invoked) = Len(Runnable)
            /\ \A k \in DOMAIN invoked : invoked[k].name = Runnable[k].name)

C10_Witness ==
    /\ pc = "done"
    /\ \E k \in DOMAIN invoked :
          /\ invoked[k].outcome \in {"raise", "False"}
          /\ k + 1 \in DOMAIN invoked

\* C11: process_delivery is never left by an exception, and it assembles its
\* DeliveryOutput only after the loop has reached every item.
C11_RunsToCompletion ==
    /\ pc # "raised"
    /\ Assembled => idx = Len(Items) + 1

\* the item's target_template fails to render for the file
TemplateFails(item, src_file) ==
    /\ item.target_template # TEmpty
    /\ render_path(item.target_template, FileMetadata(item.metadata, src_file)).raised

\* C12: a regular file whose item's target_template fails to render is
\* transferred under its original name: it has a result whose destination is
\* that name below the delivery path, successful when the copy plugin can
\* write it there.
C12_TemplateFailureFallsBack ==
    Assembled =>
       \A i \in DOMAIN Items :
          (IsFile(start_fs, SourceOf(i)) /\ TemplateFails(Items[i], SourceOf(i))) =>
             /\ TargetFilename(Items[i], SourceOf(i)) = <<Name(SourceOf(i))>>
             /\ \E k \in ResultsFrom(Items[i].source_path) :
                   /\ results[k].destination
                        = Str(JoinPath(delivery_path, <<Name(SourceOf(i))>>))
                   /\ (CopyableFileItem(i) /\ ~delivery.dry_run) => results[k].success

\* the destination the process plugin of the item of the input JSON settles
\* on for a regular-file item
StrategyDestination(i) ==
    LET raw == input_data.items[i]
        method == IF "process_method" \in DOMAIN raw THEN raw.process_method ELSE "copy"
        target == JoinPath(delivery_path, TargetFilename(Items[i], SourceOf(i)))
    IN  RunProcessPlugin(settings, method, Items[i].source_path, Str(target),
                         FileMetadata(Items[i].metadata, SourceOf(i)),
                         delivery.dry_run, start_fs).dest

\* C14: the result of a regular-file item delivered by copy or symlink
\* records the destination the plugin returned, which is the path under the
\* plugin's own target_template when it has one.
C14_RecordsStrategyDestination ==
    Assembled =>
       \A i \in DOMAIN Items :
          ( /\ IsFile(start_fs, SourceOf(i))
            /\ "process_method" \in DOMAIN input_data.items[i]
            /\ input_data.items[i].process_method \in {"copy", "symlink"} ) =>
             \E k \in ResultsFrom(Items[i].source_path) :
                results[k].destination = StrategyDestination(i)

\* ------------------------------------------------- render_path called alone
\* the templates and metadata mappings render_path is called with: item
\* metadata as it comes, and with the src_ fields the engine adds
RenderTemplates == {TEmpty, TShot, TBad, TAttr, TPlugin, TPlates, TClient, TBase}

RenderMetadata ==
    LET plain == {MD0, MD1, [shot |-> "sh010"], [client |-> "acme", shot |-> "sh020"]}
    IN  plain \cup {FileMetadata(m, <<"src", "a.exr">>) : m \in plain}

InitRender ==
    /\ input_data \in [items : {<<>>}, callbacks : {<<>>}, dry_run : {FALSE}]
    /\ settings = Settings
    /\ delivery = DeliveryInput(input_data)
    /\ fs = SourceTree
    /\ start_fs = fs
    /\ pc = "render"
    /\ idx = 1
    /\ sources_to_copy = <<>>
    /\ results = <<>>
    /\ output = <<>>
    /\ cb = 1
    /\ invoked = <<>>
    /\ history = <<>>
    /\ last_call = <<>>
    /\ ncalls = 0

\* templating.py 26-32: one call of render_path
RenderCall ==
    /\ pc = "render"
    /\ ncalls < MaxCalls
    /\ \E template \in RenderTemplates, metadata \in RenderMetadata :
          last_call' = <<[template |-> template, metadata |-> metadata,
                          returned |-> render_path(template, metadata)]>>
    /\ ncalls' = ncalls + 1
    /\ UNCHANGED <<input_data, settings, delivery, fs, pc, idx, sources_to_copy, results,
                   output, cb, invoked, start_fs, history>>

\* render_path called directly
SpecRender == InitRender /\ [][RenderCall]_vars

\* the keys a template refers to
KeysOf(template) ==
    {template.segs[k].v : k \in {j \in DOMAIN template.segs : template.segs[j].type # "lit"}}

\* C13: a call of render_path with a template that refers to a key the
\* metadata mapping does not have raises.
C13_AbsentKeyRaises ==
    \A k \in DOMAIN last_call :
       ~(KeysOf(last_call[k].template) \subseteq DOMAIN last_call[k].metadata) =>
          last_call[k].returned.raised

\* C15: every real call of the symlink plugin at a destination that holds
\* nothing, a regular file, a live link or a stale link, a link left by an
\* earlier call included, succeeds and leaves at the destination a symbolic
\* link to the source of that call.
C15_SymlinkReplaces ==
    \A k \in DOMAIN last_call :
       LET call == last_call[k]
           dest == PathOf(call.returned.dest)
       IN  ( /\ call.method = "symlink"
             /\ ~delivery.dry_run
             /\ ~IsDir(call.before, dest)
             /\ ~MkdirBlocked(call.before, Parent(dest)) ) =>
              /\ call.returned.ok
              /\ Exists(fs, dest)
              /\ fs[dest] = LinkNode(PathOf(call.source))

C15_Witness ==
    /\ ncalls = 2
    /\ ~delivery.dry_run
    /\ \E k \in DOMAIN last_call :
          LET call == last_call[k]
              dest == PathOf(call.returned.dest)
          IN  /\ call.method = "symlink"
              /\ ~Exists(start_fs, dest)
              /\ Exists(call.before, dest)
              /\ call.before[dest].kind = "link"
              /\ call.before[dest].data # PathOf(call.source)
              /\ call.returned.ok
              /\ fs[dest] = LinkNode(PathOf(call.source))

\* ------------------------------------------------- a delivery that is retried
\* main.py 70-87: process_delivery is killed part-way and the same input JSON
\* is delivered again on the filesystem it left
Interrupted ==
    /\ pc \in {"item", "file", "callbacks"}
    /\ Len(history) < MaxRuns - 1
    /\ history' = Append(history, [dry_run |-> delivery.dry_run, start_fs |-> start_fs,
                                   fs |-> fs, pc |-> pc, output |-> output])
    /\ start_fs' = fs
    /\ pc' = "start"
    /\ idx' = 1
    /\ sources_to_copy' = <<>>
    /\ results' = <<>>
    /\ output' = <<>>
    /\ cb' = 1
    /\ invoked' = <<>>
    /\ UNCHANGED <<input_data, settings, delivery, fs, last_call, ncalls>>

\* a real delivery of at most MaxRetryItems items with at most one callback,
\* retried after it ended or was interrupted, or process plugins called
\* again and again
InitRetry ==
    \/ /\ Init
       /\ ~delivery.dry_run
       /\ Len(delivery.callbacks) <= 1
       /\ Len(delivery.items) <= MaxRetryItems
    \/ InitPlugins

SpecRetry == InitRetry /\ [][Next \/ Rerun \/ Interrupted \/ PluginCall]_vars

\* engine.py 76-137 run to its end for the files of one item: the results
\* and the filesystem after the loop over sources_to_copy
RECURSIVE FilesOutcome(_, _, _, _)
FilesOutcome(item, files, rs, tree) ==
    IF files = <<>> THEN [results |-> rs, fs |-> tree]
    ELSE LET r == ProcessFile(settings, FALSE, tree, item, Head(files))
         IN  IF r.raised # None
             THEN [results |-> Append(rs, FailedResult(item, r.raised)), fs |-> r.fs]
             ELSE FilesOutcome(item, Tail(files), Append(rs, r.result[1]), r.fs)

\* engine.py 56-137 run without interruption from item i on: the results and
\* filesystems it can end with, one for each order of the directory listings
RECURSIVE Uninterrupted(_, _, _)
Uninterrupted(i, rs, tree) ==
    IF i > Len(Items) THEN {[results |-> rs, fs |-> tree]}
    ELSE LET item == Items[i]
             source == PathOf(item.source_path)
         IN  IF ~Exists(tree, source)
             THEN Uninterrupted(i + 1, Append(rs, FailedResult(item, ErrSourceMissing)), tree)
             ELSE UNION { Uninterrupted(i + 1, FilesOutcome(item, listed, rs, tree).results,
                                        FilesOutcome(item, listed, rs, tree).fs) :
                             listed \in IF IsDir(tree, source)
                                        THEN Orders({f \in Children(tree, source) :
                                                        IsFile(tree, Deref(tree, f))})
                                        ELSE {<<source>>} }

\* the destination tree without the manifest a callback may have written
Delivered(tree) ==
    [p \in (DOMAIN tree) \ {delivery_path \o <<"manifest.md">>} |-> tree[p]]

\* every invocation so far was a real one
AllReal == ~delivery.dry_run /\ \A h \in DOMAIN history : ~history[h].dry_run

\* C16: a real delivery that follows earlier real deliveries of the same
\* input, ended or interrupted, ends as one uninterrupted delivery from the
\* first filesystem ends: it raises only if that one raises, and it has the
\* results and the destination tree of that one.  A real call of the copy
\* plugin with a regular-file source succeeds when a regular file or nothing
\* is at its destination, and it reports success only when the destination
\* holds the content of the source.
C16_RetrySafe ==
    /\ (history # <<>> /\ AllReal /\ pc \in {"done", "raised"}) =>
          LET first == history[1].start_fs
          IN  IF EnsureDirRaises(FALSE, first, delivery_path)
              THEN pc = "raised" /\ fs = first
              ELSE /\ pc = "done"
                   /\ [results |-> output[1].results, fs |-> Delivered(fs)]
                        \in Uninterrupted(1, <<>>, EnsureDir(FALSE, first, delivery_path))
    /\ \A k \in DOMAIN last_call :
          LET call == last_call[k]
              src == PathOf(call.source)
              dest == PathOf(call.returned.dest)
              written == CopyTarget(call.before, src, dest)
          IN  (call.method = "copy" /\ ~delivery.dry_run) =>
                 /\ ( /\ IsFile(call.before, src)
                      /\ ~Exists(call.before, dest) \/ IsFile(call.before, dest)
                      /\ ~MkdirBlocked(call.before, Parent(dest)) ) => call.returned.ok
                 /\ call.returned.ok =>
                       /\ IsFile(call.before, Deref(call.before, src))
                       /\ IsFile(fs, written)
                       /\ fs[written].data = call.before[Deref(call.before, src)].data

\* a delivery interrupted after it had created directories is delivered
\* again and creates the rest
C16_Witness ==
    /\ pc = "done"
    /\ AllReal
    /\ history # <<>>
    /\ history[1].pc \in {"item", "file"}
    /\ history[1].fs # history[1].start_fs
    /\ fs # history[1].fs
    /\ output[1].results # <<>>

\* ------------------------------------------------ manifest: _group_sequences
\* pattern.match(name) for ^(.*?)[._](\d+)\.([a-zA-Z0-9]+)$ on the file names
\* of the results: <<>> for no match, else <<the groups>>, the frame as
\* int(frame) reads it
FrameMatch(n) ==
    CASE n = "f.1001.exr" -> <<[prefix |-> "f", frame |-> 1001, ext |-> "exr"]>>
      [] n = "f.1002.exr" -> <<[prefix |-> "f", frame |-> 1002, ext |-> "exr"]>>
      [] n = "f_1003.exr" -> <<[prefix |-> "f", frame |-> 1003, ext |-> "exr"]>>
      [] n = "g.0007.exr" -> <<[prefix |-> "g", frame |-> 7, ext |-> "exr"]>>
      [] OTHER -> <<>>

\* f"{prefix}.[{start}-{end}].{ext}"
RangeName(prefix, start, end, ext) ==
    <<prefix \o ".[" \o ToString(start) \o "-" \o ToString(end) \o "]." \o ext>>

\* Path(s).name as a string
BaseName(s) == <<Name(PathOf(s))>>

\* manifest/plugin.py 78-105: the entry of a failed result, or of a
\* successful one whose file name is no frame of a sequence
OtherEntry(res) ==
    IF res.success
    THEN [source |-> res.source, destination |-> res.destination,
          description |-> res.description, success |-> TRUE]
    ELSE [source |-> res.source, destination |-> res.destination,
          description |-> res.description, success |-> FALSE, error |-> res.error]

\* manifest/plugin.py 65-137: _group_sequences, the list it returns or the
\* exception that ends it
GroupSequences(rs) ==
    LET Match(k) == FrameMatch(Name(PathOf(rs[k].destination)))
        matched == {k \in DOMAIN rs : rs[k].success /\ Match(k) # <<>>}
        KeyOf(k) == [parent |-> Str(Parent(PathOf(rs[k].destination))),
                     prefix |-> Match(k)[1].prefix, ext |-> Match(k)[1].ext]
        FrameOf(k) == Match(k)[1].frame
        frames(k) == {j \in matched : KeyOf(j) = KeyOf(k)}
        positions == [k \in DOMAIN rs |-> k]
        \* the keys of sequences, in the order of their first result
        keys == SelectSeq(positions,
                          LAMBDA k : k \in matched /\ \A j \in frames(k) : k <= j)
        others == SelectSeq(positions, LAMBDA k : k \notin matched)
        \* frames.sort() compares two results when their frames are equal
        SortRaises == \E k \in matched : \E i, j \in frames(k) :
                          i # j /\ FrameOf(i) = FrameOf(j) /\ rs[i] # rs[j]
        \* res.description of a result that has no such attribute
        DescriptionRaises == \E k \in DOMAIN rs : "description" \notin DOMAIN rs[k]
        first(k) == CHOOSE i \in frames(k) : \A j \in frames(k) : FrameOf(i) <= FrameOf(j)
        last(k) == CHOOSE i \in frames(k) : \A j \in frames(k) : FrameOf(j) <= FrameOf(i)
        SequenceEntry(k) ==
            IF Cardinality(frames(k)) > 1
            THEN LET name == RangeName(KeyOf(k).prefix, FrameOf(first(k)),
                                       FrameOf(last(k)), KeyOf(k).ext)
                 IN  [source |-> name, destination |-> name,
                      description |-> rs[first(k)].description, success |-> TRUE]
            ELSE [source |-> BaseName(rs[k].source),
                  destination |-> BaseName(rs[k].destination),
                  description |-> rs[k].description, success |-> TRUE]
    IN  IF SortRaises \/ DescriptionRaises
        THEN [raised |-> TRUE, out |-> <<>>]
        ELSE [raised |-> FALSE,
              out |-> [n \in DOMAIN keys |-> SequenceEntry(keys[n])]
                        \o [n \in DOMAIN others |-> OtherEntry(rs[others[n]])]]

\* the results _group_sequences is called with: frames of one sequence, a
\* lone frame, a file that is no frame, and failed results with and without
\* a destination
GroupResults ==
    LET seq == <<"src", "seq">>
        out == delivery_path
    IN  { ItemResult(Str(seq \o <<"f.1001.exr">>), Str(out \o <<"f.1001.exr">>), TRUE, None),
          ItemResult(Str(seq \o <<"f.1002.exr">>), Str(out \o <<"f.1002.exr">>), TRUE, None),
          ItemResult(Str(seq \o <<"f_1003.exr">>), Str(out \o <<"f_1003.exr">>), TRUE, None),
          ItemResult(Str(seq \o <<"g.0007.exr">>), Str(out \o <<"g.0007.exr">>), TRUE, None),
          ItemResult(Str(<<"src", "a.exr">>), Str(out \o <<"a.exr">>), TRUE, None),
          ItemResult(Str(<<"src", "gone.exr">>), EmptyStr, FALSE, ErrSourceMissing),
          ItemResult(Str(seq \o <<"f.1002.exr">>), Str(out \o <<"f.1002.exr">>), FALSE, None) }

InitGroup ==
    /\ input_data \in [items : {<<>>}, callbacks : {<<>>}, dry_run : {FALSE}]
    /\ settings = Settings
    /\ delivery = DeliveryInput(input_data)
    /\ fs = SourceTree
    /\ start_fs = fs
    /\ pc = "group"
    /\ idx = 1
    /\ sources_to_copy = <<>>
    /\ results = <<>>
    /\ output = <<>>
    /\ cb = 1
    /\ invoked = <<>>
    /\ history = <<>>
    /\ last_call = <<>>
    /\ ncalls = 0

\* manifest/plugin.py 39: one call of _group_sequences on a list of results
GroupCall ==
    /\ pc = "group"
    /\ ncalls < MaxCalls
    /\ \E rs \in SeqUpTo(GroupResults, MaxResults) :
          last_call' = <<[results |-> rs, returned |-> GroupSequences(rs)]>>
    /\ ncalls' = ncalls + 1
    /\ UNCHANGED <<input_data, settings, delivery, fs, pc, idx, sources_to_copy, results,
                   output, cb, invoked, start_fs, history>>

\* _group_sequences called directly
SpecGroup == InitGroup /\ [][GroupCall]_vars

\* two results are frames of one sequence: successful, with file names that
\* match the frame pattern and agree on directory, prefix and extension
SameSequence(a, b) ==
    LET pa == PathOf(a.destination)
        pb == PathOf(b.destination)
    IN  /\ a.success /\ b.success
        /\ FrameMatch(Name(pa)) # <<>> /\ FrameMatch(Name(pb)) # <<>>
        /\ Parent(pa) = Parent(pb)
        /\ FrameMatch(Name(pa))[1].prefix = FrameMatch(Name(pb))[1].prefix
        /\ FrameMatch(Name(pa))[1].ext = FrameMatch(Name(pb))[1].ext

\* the positions of the results that are frames of the sequence of rs[k]
SequenceOf(rs, k) == {j \in DOMAIN rs : SameSequence(rs[j], rs[k])}

FrameNumber(res) == FrameMatch(Name(PathOf(res.destination)))[1].frame

\* C17: _group_sequences returns, for every failed result it is given, as
\* many failed entries with that result's source, destination and error as
\* the input has such results.
C17_FailedListedUnchanged ==
    \A c \in DOMAIN last_call :
       LET rs == last_call[c].results
           ret == last_call[c].returned
       IN  \A k \in DOMAIN rs :
              ~rs[k].success =>
                 /\ ~ret.raised
                 /\ Cardinality({n \in DOMAIN ret.out :
                                    /\ ~ret.out[n].success
                                    /\ ret.out[n].source = rs[k].source
                                    /\ ret.out[n].destination = rs[k].destination
                                    /\ ret.out[n].error = rs[k].error})
                      = Cardinality({j \in DOMAIN rs : rs[j] = rs[k]})

\* C18: _group_sequences returns, for the frames of a sequence of two or
\* more results, exactly one entry, named prefix.[min-max].ext after the
\* smallest and largest frame numbers, with the description of the result
\* of the smallest.
C18_SequencesCollapse ==
    \A c \in DOMAIN last_call :
       LET rs == last_call[c].results
           ret == last_call[c].returned
       IN  \A k \in DOMAIN rs :
              Cardinality(SequenceOf(rs, k)) > 1 =>
                 LET seq == SequenceOf(rs, k)
                     lo == CHOOSE i \in seq : \A j \in seq : FrameNumber(rs[i]) <= FrameNumber(rs[j])
                     hi == CHOOSE i \in seq : \A j \in seq : FrameNumber(rs[j]) <= FrameNumber(rs[i])
                     m == FrameMatch(Name(PathOf(rs[k].destination)))[1]
                     name == RangeName(m.prefix, FrameNumber(rs[lo]), FrameNumber(rs[hi]), m.ext)
                 IN  /\ ~ret.raised
                     /\ Cardinality({n \in DOMAIN ret.out : ret.out[n].destination = name}) = 1
                     /\ \A n \in DOMAIN ret.out :
                           ret.out[n].destination = name =>
                              ret.out[n].success /\ ret.out[n].description = rs[lo].description

\* C19: _group_sequences returns, for every successful result that is alone
\* in its sequence or whose file name is no frame, an entry of its own whose
\* destination is the base file name.
C19_SinglesByBaseName ==
    \A c \in DOMAIN last_call :
       LET rs == last_call[c].results
           ret == last_call[c].returned
       IN  \A k \in DOMAIN rs :
              (rs[k].success /\ Cardinality(SequenceOf(rs, k)) <= 1) =>
                 /\ ~ret.raised
                 /\ Cardinality({n \in DOMAIN ret.out :
                                    /\ ret.out[n].success
                                    /\ ret.out[n].destination = BaseName(rs[k].destination)})
                      = Cardinality({j \in DOMAIN rs :
                                        /\ rs[j].success
                                        /\ BaseName(rs[j].destination) = BaseName(rs[k].destination)})

\* C20: in the list _group_sequences returns no failed entry comes before a
\* successful one, and the failed entries are the failed results in the
\* order of the input.
C20_SuccessfulBeforeFailed ==
    \A c \in DOMAIN last_call :
       LET rs == last_call[c].results
           ret == last_call[c].returned
           Key(r) == <<r.source, r.destination>>
           failedIn == SelectSeq(rs, LAMBDA r : ~r.success)
           failedOut == SelectSeq(ret.out, LAMBDA e : ~e.success)
       IN  /\ ~ret.raised
           /\ \A m, n \in DOMAIN ret.out : (m < n /\ ~ret.out[m].success) => ~ret.out[n].success
           /\ [n \in DOMAIN failedOut |-> Key(failedOut[n])]
                = [n \in DOMAIN failedIn |-> Key(failedIn[n])]

\* C21: no step changes the metadata of an item: it stays what the input JSON
\* gave, also after a direct call of tokenize that injected tokens, and the
\* file_metadata a plugin is called with holds only the item's metadata and
\* the src_ fields of that file, nothing an earlier call injected.
C21_ItemMetadataKept ==
    /\ [][delivery'.items = delivery.items]_vars
    /\ [](\A i \in DOMAIN Items : Items[i].metadata = input_data.items[i].metadata)
    /\ [](\A k \in DOMAIN last_call :
             /\ last_call[k].item_metadata = MD1
             /\ last_call[k].metadata = FileMetadata(MD1, PathOf(last_call[k].source)))

\* tokenize injected tokens into the file_metadata of the second call
C21_Witness ==
    /\ ncalls = 2
    /\ \E k \in DOMAIN last_call :
          /\ last_call[k].method = "tokenize"
          /\ "root" \in DOMAIN last_call[k].returned.metadata
          /\ "root" \notin DOMAIN last_call[k].metadata
          /\ last_call[k].item_metadata = MD1

\* the regular files that stand directly in a directory
ImmediateFiles(tree, d) ==
    {q \in DOMAIN tree : /\ Len(q) = Len(d) + 1
                         /\ SubSeq(q, 1, Len(d)) = d
                         /\ tree[q].kind = "file"}

\* the elements of a sequence
Range(s) == {s[k] : k \in DOMAIN s}

\* C22: the files collected for a directory item are its immediate regular
\* files, each once; collecting a directory that has none appends no result,
\* and at the end such an item has no result at all.
C22_DirectoryResolvesToImmediateFiles ==
    /\ [][(pc = "item" /\ idx <= Len(Items) /\ IsDir(fs, SourceOf(idx))) =>
             /\ Range(sources_to_copy') = ImmediateFiles(fs, SourceOf(idx))
             /\ Len(sources_to_copy') = Cardinality(ImmediateFiles(fs, SourceOf(idx)))
             /\ results' = results
             /\ ImmediateFiles(fs, SourceOf(idx)) = {} => idx' = idx + 1 /\ pc' = "item"]_vars
    /\ [](Assembled =>
            \A i \in DOMAIN Items :
               (IsDir(fs, SourceOf(i)) /\ ImmediateFiles(fs, SourceOf(i)) = {}) =>
                  ResultsFrom(Items[i].source_path) = {})

\* a package with an empty directory and a directory of two files and a
\* subdirectory was delivered
C22_Witness ==
    /\ pc = "done"
    /\ \E i, j \in DOMAIN Items :
          /\ IsDir(fs, SourceOf(i))
          /\ ImmediateFiles(fs, SourceOf(i)) = {}
          /\ ResultsFrom(Items[i].source_path) = {}
          /\ Cardinality(ImmediateFiles(fs, SourceOf(j))) = 2
          /\ \E q \in DOMAIN fs : Len(q) > Len(SourceOf(j)) + 1
                                  /\ SubSeq(q, 1, Len(SourceOf(j))) = SourceOf(j)
          /\ ResultsFrom(Items[j].source_path) # {}

\* the plugin of the call has a target_template of its own ("" counts as none)
OwnTemplate(call) ==
    "target_template" \in DOMAIN call.config /\ call.config.target_template # TEmpty

PartsOf(call) ==
    LET config == call.config
        delimiter == IF "delimiter" \in DOMAIN config THEN config.delimiter ELSE "/"
    IN  IF /\ "source_key" \in DOMAIN config
           /\ config.source_key \in DOMAIN call.metadata
           /\ call.metadata[config.source_key] # ""
        THEN SplitValue(call.metadata[config.source_key], delimiter)
        ELSE SplitStr(call.source, delimiter)

\* the part a valid index n stands for, counted from the end when negative
PartAt(parts, n) == IF n >= 0 THEN parts[n + 1] ELSE parts[Len(parts) + n + 1]

\* metadata[name] is after the call what it was before it
LeftAsItWas(call, name) ==
    IF name \in DOMAIN call.metadata
    THEN /\ name \in DOMAIN call.returned.metadata
         /\ call.returned.metadata[name] = call.metadata[name]
    ELSE name \notin DOMAIN call.returned.metadata

\* a call of tokenize returns success and the destination it was given, sets
\* the token of every index for which applies(index) holds to the part it
\* stands for, and leaves every other key of the metadata as it was
TokenizeSets(call, applies(_)) ==
    LET tokens == call.config.tokens
        parts == PartsOf(call)
    IN  /\ call.returned.ok
        /\ call.returned.dest = call.destination
        /\ call.returned.fs = call.before
        /\ \A t \in DOMAIN tokens :
              IF applies(tokens[t].index)
              THEN /\ tokens[t].name \in DOMAIN call.returned.metadata
                   /\ call.returned.metadata[tokens[t].name] = PartAt(parts, tokens[t].index.n)
              ELSE LeftAsItWas(call, tokens[t].name)
        /\ \A name \in (DOMAIN call.metadata) \ {tokens[t].name : t \in DOMAIN tokens} :
              LeftAsItWas(call, name)

\* C24 as claimed: the token is set exactly when the index is an integer
\* with -len(parts) <= index < len(parts); an index that is no integer
\* leaves the metadata as it was.
C24_IntegerIndexInRange ==
    \A k \in DOMAIN last_call :
       last_call[k].method = "tokenize" =>
          TokenizeSets(last_call[k],
                       LAMBDA index : /\ index.type = "int"
                                      /\ -Len(PartsOf(last_call[k])) <= index.n
                                      /\ index.n < Len(PartsOf(last_call[k])))

\* C24 amended: the token is set exactly when int(index) gives an i with
\* -len(parts) <= i < len(parts), which it also does for the string of an
\* integer and for a float (truncated); only an index int() rejects, or one
\* out of range, leaves the metadata as it was.
C24_ConvertedIndexInRange ==
    \A k \in DOMAIN last_call :
       last_call[k].method = "tokenize" =>
          TokenizeSets(last_call[k],
                       LAMBDA index : /\ index.type \in {"int", "digits", "float"}
                                      /\ -Len(PartsOf(last_call[k])) <= index.n
                                      /\ index.n < Len(PartsOf(last_call[k])))

\* tokenize set a token counted from the end, skipped an index out of range
\* and a word, and went on to the tokens after them
C24_Witness ==
    \E k \in DOMAIN last_call :
       LET call == last_call[k]
       IN  /\ call.method = "tokenize"
           /\ call.config = Settings.tokenize
           /\ Len(PartsOf(call)) = 3
           /\ call.returned.metadata["leaf"] = Name(PathOf(call.source))
           /\ "far" \notin DOMAIN call.returned.metadata
           /\ "bad" \notin DOMAIN call.returned.metadata
           /\ call.returned.metadata["shot"] = "sh010"
           /\ call.returned.metadata["digits"] = Name(PathOf(call.source))

\* C25: the item loop only moves forward, by one item at a time; a step
\* appends at most one result, at the end of results, and it is a result of
\* the item the loop is at, so the results of an earlier item precede those
\* of a later one; a callback runs only when the loop has passed the last
\* item, on the results as they then stay.
C25_SequentialInOrder ==
    [][ /\ idx' \in {idx, idx + 1}
        /\ results' # results =>
              /\ idx <= Len(Items)
              /\ Len(results') = Len(results) + 1
              /\ SubSeq(results', 1, Len(results)) = results
              /\ \/ results'[Len(results')].source = Items[idx].source_path
                 \/ PathOf(results'[Len(results')].source) \in Resolved(idx)
        /\ invoked' # invoked =>
              /\ idx = Len(Items) + 1
              /\ results' = results
              /\ output' = output
              /\ output[1].results = results ]_vars

\* a delivery of several items that all have results ran a callback
C25_Witness ==
    /\ pc = "done"
    /\ invoked # <<>>
    /\ Len(Items) >= 2
    /\ \E i, j \in DOMAIN Items :
          /\ i < j
          /\ Items[i].source_path # Items[j].source_path
          /\ \E m \in ResultsFrom(Items[i].source_path), n \in ResultsFrom(Items[j].source_path) :
                m < n

\* ------------------------------------------ names that leave delivery_path
\* items whose target_template renders, for a regular file, to a name that
\* starts with "/" because a key is missing, next to items that stay inside
EscapeItems ==
    { [source_path |-> Str(<<"src", "a.exr">>), target_template |-> TClient, metadata |-> MD1,
       process_method |-> "copy"],
      [source_path |-> Str(<<"src", "a.exr">>), target_template |-> TShot, metadata |-> MD0],
      [source_path |-> Str(<<"src", "seq">>), target_template |-> TPlates, metadata |-> MD0],
      [source_path |-> Str(<<"src", "gone.exr">>), target_template |-> TShot, metadata |-> MD1] }

InitEscape ==
    /\ input_data \in [items : SeqUpTo(EscapeItems, MaxItems), callbacks : CallbackMaps,
                       dry_run : BOOLEAN]
    /\ settings = Settings
    /\ delivery = DeliveryInput(input_data)
    /\ fs \in DestTrees
    /\ start_fs = fs
    /\ pc = "start"
    /\ idx = 1
    /\ sources_to_copy = <<>>
    /\ results = <<>>
    /\ output = <<>>
    /\ cb = 1
    /\ invoked = <<>>
    /\ history = <<>>
    /\ last_call = <<>>
    /\ ncalls = 0

\* one invocation of process_delivery on such items
SpecEscape == InitEscape /\ [][Next]_vars

\* the path is delivery_path or lies below it
Inside(p) ==
    /\ Len(p) >= Len(delivery_path)
    /\ SubSeq(p, 1, Len(delivery_path)) = delivery_path
    /\ \A k \in DOMAIN p : p[k] # ".."

\* C26: everything process_delivery has created is delivery_path, one of the
\* directories above it, or lies below it, and the destination of every
\* successful result lies inside delivery_path.
C26_StaysInsideDeliveryPath ==
    /\ \A p \in (DOMAIN fs) \ (DOMAIN start_fs) : Inside(p) \/ p \in Prefixes(delivery_path)
    /\ \A k \in DOMAIN results :
          results[k].success => Inside(PathOf(results[k].destination))

\* the results that share the entry of rs[k]: the frames of its sequence, or
\* the result alone
EntryOf(rs, k) == IF SequenceOf(rs, k) = {} THEN {k} ELSE SequenceOf(rs, k)

\* C27: _group_sequences returns one entry for every result that is no frame
\* of a sequence and one for every sequence, so no more entries than
\* results, as many successful entries as there are successful results alone
\* or sequences, and as many failed entries as failed results.
C27_NothingLostOrDoubled ==
    \A c \in DOMAIN last_call :
       LET rs == last_call[c].results
           ret == last_call[c].returned
       IN  /\ ~ret.raised
           /\ Len(ret.out) = Cardinality({EntryOf(rs, k) : k \in DOMAIN rs})
           /\ Len(ret.out) <= Len(rs)
           /\ Cardinality({n \in DOMAIN ret.out : ~ret.out[n].success})
                = Cardinality({k \in DOMAIN rs : ~rs[k].success})

\* the statuses that tell of a failed delivery, and of a successful one
FailureStatuses == {"Failed", "failure", "#FF0000"}

SuccessStatuses == {"Delivered", "info", "#00FF00"}

\* C28: the status a callback derives from the summary tells failure from
\* success: when no file was delivered successfully the callback reports
\* 'Failed' (apprise 'failure', mattermost the failure colour), and it
\* reports 'Delivered' / 'info' only when files were delivered (stated for
\* deliveries that processed at least one file)
C28_StatusTellsFailure ==
    \A k \in DOMAIN invoked :
       (invoked[k].status # "<None>" /\ output[1].results # <<>>) =>
          /\ SuccessCount(output[1].results) = 0 => invoked[k].status \in FailureStatuses
          /\ invoked[k].status \in SuccessStatuses => SuccessCount(output[1].results) > 0

====
